---- MODULE Spec2Model ----
(***************************************************************************)
(* xcoder-queue (src/src/lib.rs): a bounded single-producer /              *)
(* single-consumer queue of Result<XcoderDecoderInputFrame, E> built on an *)
(* rtrb ring buffer, with polling push and next, and read_frames, which    *)
(* groups the NAL units of an Annex-B buffer into access-unit frames.      *)
(***************************************************************************)
EXTENDS Integers, Sequences, FiniteSets, TLC

\* ------------------------------------------------------------------ bounds
\* Largest capacity passed to DecoderInputQueue::new.
MaxCapacity == 2
\* Number of push calls the producer makes: enough to overfill every capacity.
MaxPush == MaxCapacity + 2
\* Largest number of NAL units in the buffer given to read_frames.
MaxNalus == 4

\* ------------------------------------------------------------------ values
\* XcoderDecoderInputFrame { data, pts, dts }.
Frame(data, pts, dts) == [data |-> data, pts |-> pts, dts |-> dts]

NoFrame == Frame(<<>>, 0 - 1, 0 - 1)

\* Result<XcoderDecoderInputFrame, E>: the element type of the queue.
Ok(f) == [tag |-> "Ok", frame |-> f, err |-> "none"]

Err(e) == [tag |-> "Err", frame |-> NoFrame, err |-> e]

\* The 4-byte start code read_frames puts before every NAL unit.
StartCode == <<0, 0, 0, 1>>

\* The items the producer pushes: two frames and one in-band error.
Items ==
  { Ok(Frame(StartCode \o <<9>>, 0, 0)),
    Ok(Frame(StartCode \o <<5>>, 1, 1)),
    Err("e1") }

\* The value of push's local `frame` while no push call is running.
NoItem == [tag |-> "None", frame |-> NoFrame, err |-> "none"]

\* Option<Result<..>> returned by next.
Some(x) == [tag |-> "Some", item |-> x]

None == [tag |-> "None", item |-> NoItem]

\* `returned` before any next call has returned.
NotReturned == [tag |-> "NotReturned", item |-> NoItem]

VARIABLES
  requested,  \* the `capacity` argument given to DecoderInputQueue::new
  capacity,   \* capacity of the ring buffer made by RingBuffer::new
  ring,       \* the items held in the ring buffer, oldest first
  producer,   \* producer thread: "idle", "attempt", "sleep", "dropped"
  frame,      \* push's local `frame`
  consumer,   \* consumer thread: "idle", "attempt", "sleep", "dropped"
  returned,   \* what the last next call that returned gave its caller
  pushed,     \* history: the items passed to push, in call order
  popped,     \* history: the items returned by next, in return order
  nalus,      \* read_frames: the NAL units iterate_annex_b yields
  rf,         \* read_frames: "idle", "loop", "returned", "panicked"
  idx,        \* read_frames: index of the NAL unit the for loop takes next
  ret,        \* read_frames: `ret`
  buffer,     \* read_frames: `buffer`
  h264_counter \* read_frames: h264_counter.count()

qvars == <<requested, capacity, ring, producer, frame, consumer, returned, pushed, popped>>

dvars == <<nalus, rf, idx, ret, buffer, h264_counter>>

vars == <<qvars, dvars>>

\* ------------------------------------------------------------- ring buffer
\* RingBuffer::new(capacity): an empty ring of exactly `capacity` slots.
RingBufferNew(cap) == [capacity |-> cap, ring |-> <<>>]

SenderPush_NoFullCheck(r, cap, item) ==
  [ok |-> TRUE, ring |-> Append(r, item), back |-> NoItem]

SenderPush_DropOnFull(r, cap, item) ==
  IF Len(r) < cap
    THEN [ok |-> TRUE, ring |-> Append(r, item), back |-> NoItem]
    ELSE [ok |-> TRUE, ring |-> r, back |-> NoItem]

SenderPush_Overwrite(r, cap, item) ==
  IF Len(r) < cap
    THEN [ok |-> TRUE, ring |-> Append(r, item), back |-> NoItem]
    ELSE [ok |-> TRUE,
          ring |-> IF r = <<>> THEN r ELSE Append(Tail(r), item),
          back |-> NoItem]

SenderPush_FullLosesItem(r, cap, item) ==
  IF Len(r) < cap
    THEN [ok |-> TRUE, ring |-> Append(r, item), back |-> NoItem]
    ELSE [ok |-> FALSE, ring |-> r, back |-> NoItem]

SenderPush_OffByOne(r, cap, item) ==
  IF Len(r) + 1 < cap
    THEN [ok |-> TRUE, ring |-> Append(r, item), back |-> NoItem]
    ELSE [ok |-> FALSE, ring |-> r, back |-> item]

\* self.sender.push(frame): Ok(()) with the item appended when a slot is
\* free, Err(PushError::Full(item)) handing the item back otherwise.
SenderPush(r, cap, item) ==
  IF Len(r) < cap
    THEN [ok |-> TRUE, ring |-> Append(r, item), back |-> NoItem]
    ELSE [ok |-> FALSE, ring |-> r, back |-> item]

ReceiverPop_Newest(r) ==
  IF r # <<>>
    THEN [ok |-> TRUE, item |-> r[Len(r)], ring |-> SubSeq(r, 1, Len(r) - 1)]
    ELSE [ok |-> FALSE, item |-> NoItem, ring |-> r]

\* self.receiver.pop(): Ok(oldest item), removed from the ring, or
\* Err(PopError::Empty).
ReceiverPop(r) ==
  IF r # <<>>
    THEN [ok |-> TRUE, item |-> Head(r), ring |-> Tail(r)]
    ELSE [ok |-> FALSE, item |-> NoItem, ring |-> r]

\* -------------------------------------------------------------- the queue
\* DecoderInputQueue::new(capacity), any usize up to MaxCapacity.
QueueInit ==
  /\ requested \in 0..MaxCapacity
  /\ capacity = RingBufferNew(requested).capacity
  /\ ring = RingBufferNew(requested).ring
  /\ producer = "idle"
  /\ frame = NoItem
  /\ consumer = "idle"
  /\ returned = NotReturned
  /\ pushed = <<>>
  /\ popped = <<>>

\* read_frames is not running.
DemuxIdle ==
  /\ nalus = <<>>
  /\ rf = "idle"
  /\ idx = 1
  /\ ret = <<>>
  /\ buffer = <<>>
  /\ h264_counter = 0

Init == QueueInit /\ DemuxIdle

\* producer.push(item) is called: `let mut frame = frame;` and the loop is
\* entered.
PushCall ==
  /\ producer = "idle"
  /\ Len(pushed) < MaxPush
  /\ \E item \in Items :
       /\ frame' = item
       /\ pushed' = Append(pushed, item)
  /\ producer' = "attempt"
  /\ UNCHANGED <<requested, capacity, ring, consumer, returned, popped>>
  /\ UNCHANGED dvars

PushAttempt_ReturnOnFull ==
  /\ producer = "attempt"
  /\ LET r == SenderPush(ring, capacity, frame) IN
       /\ ring' = r.ring
       /\ frame' = NoItem
       /\ producer' = "idle"
  /\ UNCHANGED <<requested, capacity, consumer, returned, pushed, popped>>
  /\ UNCHANGED dvars

\* One turn of push's loop: `match self.sender.push(frame)`; Ok breaks out
\* of the loop and push returns, Full takes the item back and sleeps.
PushAttempt ==
  /\ producer = "attempt"
  /\ LET r == SenderPush(ring, capacity, frame) IN
       /\ ring' = r.ring
       /\ IF r.ok
            THEN /\ frame' = NoItem
                 /\ producer' = "idle"
            ELSE /\ frame' = r.back
                 /\ producer' = "sleep"
  /\ UNCHANGED <<requested, capacity, consumer, returned, pushed, popped>>
  /\ UNCHANGED dvars

\* thread::sleep(1 ms) in push is over: the loop tries again.
PushSleep ==
  /\ producer = "sleep"
  /\ producer' = "attempt"
  /\ UNCHANGED <<requested, capacity, ring, frame, consumer, returned, pushed, popped>>
  /\ UNCHANGED dvars

DropProducer_ClearsRing ==
  /\ producer = "idle"
  /\ producer' = "dropped"
  /\ ring' = <<>>
  /\ UNCHANGED <<requested, capacity, frame, consumer, returned, pushed, popped>>
  /\ UNCHANGED dvars

\* drop(producer_queue): only between push calls, which borrow it mutably.
DropProducer ==
  /\ producer = "idle"
  /\ producer' = "dropped"
  /\ UNCHANGED <<requested, capacity, ring, frame, consumer, returned, pushed, popped>>
  /\ UNCHANGED dvars

\* The consumer calls next and enters its loop.
NextCall ==
  /\ consumer = "idle"
  /\ consumer' = "attempt"
  /\ UNCHANGED <<requested, capacity, ring, producer, frame, returned, pushed, popped>>
  /\ UNCHANGED dvars

NextAttempt_NoneWhenDropped ==
  /\ consumer = "attempt"
  /\ LET r == ReceiverPop(ring) IN
       /\ ring' = r.ring
       /\ IF r.ok
            THEN /\ returned' = Some(r.item)
                 /\ popped' = Append(popped, r.item)
                 /\ consumer' = "idle"
            ELSE IF producer = "dropped"
              THEN /\ returned' = None
                   /\ popped' = popped
                   /\ consumer' = "idle"
              ELSE /\ UNCHANGED <<returned, popped>>
                   /\ consumer' = "sleep"
  /\ UNCHANGED <<requested, capacity, producer, frame, pushed>>
  /\ UNCHANGED dvars

\* One turn of next's loop: `match self.receiver.pop()`; Ok returns
\* Some(frame), Empty sleeps.
NextAttempt ==
  /\ consumer = "attempt"
  /\ LET r == ReceiverPop(ring) IN
       /\ ring' = r.ring
       /\ IF r.ok
            THEN /\ returned' = Some(r.item)
                 /\ popped' = Append(popped, r.item)
                 /\ consumer' = "idle"
            ELSE /\ UNCHANGED <<returned, popped>>
                 /\ consumer' = "sleep"
  /\ UNCHANGED <<requested, capacity, producer, frame, pushed>>
  /\ UNCHANGED dvars

\* thread::sleep(1 ms) in next is over: the loop tries again.
NextSleep ==
  /\ consumer = "sleep"
  /\ consumer' = "attempt"
  /\ UNCHANGED <<requested, capacity, ring, producer, frame, returned, pushed, popped>>
  /\ UNCHANGED dvars

\* The DecoderInputQueue is dropped by its owner, between next calls.
DropConsumer ==
  /\ consumer = "idle"
  /\ consumer' = "dropped"
  /\ UNCHANGED <<requested, capacity, ring, producer, frame, returned, pushed, popped>>
  /\ UNCHANGED dvars

Next ==
  \/ PushCall
  \/ PushAttempt
  \/ PushSleep
  \/ DropProducer
  \/ NextCall
  \/ NextAttempt
  \/ NextSleep
  \/ DropConsumer

Spec == Init /\ [][Next]_vars

\* Both threads are scheduled and every sleep ends; the consumer's owner
\* keeps calling next for as long as it holds the queue.
LiveSpec ==
  /\ Init
  /\ [][Next]_vars
  /\ WF_vars(PushAttempt)
  /\ WF_vars(PushSleep)
  /\ WF_vars(NextCall)
  /\ WF_vars(NextAttempt)
  /\ WF_vars(NextSleep)

\* ------------------------------------------------------------ read_frames
\* What h264::iterate_annex_b yields: NAL units, each with its bytes and
\* with what h264_counter.count_nalu does when it is fed at its place in
\* the stream: "new" (count goes up), "same" (count stays), "bad" (Err).
NalUnits == [bytes : {<<9>>, <<5, 7>>}, au : {"new", "same", "bad"}]

RECURSIVE SeqsUpTo(_, _)
\* All sequences over S of length at most n.
SeqsUpTo(S, n) ==
  IF n = 0
    THEN {<<>>}
    ELSE LET shorter == SeqsUpTo(S, n - 1) IN
           shorter \cup {Append(q, x) : q \in {t \in shorter : Len(t) = n - 1}, x \in S}

\* The queue is left alone while read_frames is looked at.
QueueIdle ==
  /\ requested = 1
  /\ capacity = RingBufferNew(1).capacity
  /\ ring = RingBufferNew(1).ring
  /\ producer = "idle"
  /\ frame = NoItem
  /\ consumer = "idle"
  /\ returned = NotReturned
  /\ pushed = <<>>
  /\ popped = <<>>

\* read_frames(buf) up to its for loop: nalus collected, ret and buffer
\* empty, a new AccessUnitCounter.
DemuxInit ==
  /\ nalus \in SeqsUpTo(NalUnits, MaxNalus)
  /\ rf = "loop"
  /\ idx = 1
  /\ ret = <<>>
  /\ buffer = <<>>
  /\ h264_counter = 0

\* h264_counter.count_nalu(nalu): Err for a NAL unit it cannot classify,
\* else Ok with the count raised when the NAL unit starts an access unit.
CountNalu(count, nalu) ==
  IF nalu.au = "bad"
    THEN [ok |-> FALSE, count |-> count]
    ELSE [ok |-> TRUE, count |-> IF nalu.au = "new" THEN count + 1 ELSE count]

EmitFrame_PtsFromOne(r, b) ==
  Append(r, Ok(Frame(b, Len(r) + 1, Len(r) + 1)))

\* ret.push(Ok(XcoderDecoderInputFrame { data: mem::take(&mut buffer),
\* pts: ret.len(), dts: ret.len() })).
EmitFrame(r, b) ==
  Append(r, Ok(Frame(b, Len(r), Len(r))))

\* One turn of the for loop with one of its parts changed: the emptiness
\* test of line 66 left out, the buffer kept after a frame is emitted, an
\* Err of count_nalu ignored, or the cut made after the NAL unit.
NaluStepWith(emitOnEmpty, keepBuffer, skipBad, cutAfter) ==
  /\ rf = "loop"
  /\ idx <= Len(nalus)
  /\ LET nalu == nalus[idx]
         before == h264_counter
         counted == CountNalu(h264_counter, nalu)
         is_new_frame == counted.count # before
         emit == is_new_frame /\ (emitOnEmpty \/ buffer # <<>>)
         grown == buffer \o StartCode \o nalu.bytes
     IN IF ~counted.ok /\ ~skipBad
          THEN /\ rf' = "panicked"
               /\ UNCHANGED <<idx, ret, buffer, h264_counter>>
          ELSE /\ h264_counter' = counted.count
               /\ ret' = IF emit
                           THEN EmitFrame(ret, IF cutAfter THEN grown ELSE buffer)
                           ELSE ret
               /\ buffer' = IF cutAfter
                              THEN (IF emit THEN <<>> ELSE grown)
                              ELSE (IF emit /\ ~keepBuffer THEN <<>> ELSE buffer)
                                     \o StartCode \o nalu.bytes
               /\ idx' = idx + 1
               /\ rf' = rf
  /\ UNCHANGED nalus
  /\ UNCHANGED qvars

ReadFramesNalu_CutAfter == NaluStepWith(FALSE, FALSE, FALSE, TRUE)

ReadFramesNalu_KeepBuffer == NaluStepWith(FALSE, TRUE, FALSE, FALSE)

ReadFramesNalu_SkipBad == NaluStepWith(FALSE, FALSE, TRUE, FALSE)

ReadFramesNalu_EmitEmpty == NaluStepWith(TRUE, FALSE, FALSE, FALSE)

\* One turn of `for nalu in nalus`: count the NAL unit (unwrap panics on
\* Err), emit the buffer as a frame at a boundary when it is non-empty,
\* append start code and NAL unit to the buffer.
ReadFramesNalu ==
  /\ rf = "loop"
  /\ idx <= Len(nalus)
  /\ LET nalu == nalus[idx]
         before == h264_counter
         counted == CountNalu(h264_counter, nalu)
         is_new_frame == counted.count # before
         emit == is_new_frame /\ buffer # <<>>
     IN IF ~counted.ok
          THEN /\ rf' = "panicked"
               /\ UNCHANGED <<idx, ret, buffer, h264_counter>>
          ELSE /\ h264_counter' = counted.count
               /\ ret' = IF emit THEN EmitFrame(ret, buffer) ELSE ret
               /\ buffer' = (IF emit THEN <<>> ELSE buffer) \o StartCode \o nalu.bytes
               /\ idx' = idx + 1
               /\ rf' = rf
  /\ UNCHANGED nalus
  /\ UNCHANGED qvars

ReadFramesReturn_NoFlush ==
  /\ rf = "loop"
  /\ idx > Len(nalus)
  /\ ret' = ret
  /\ buffer' = <<>>
  /\ rf' = "returned"
  /\ UNCHANGED <<nalus, idx, h264_counter>>
  /\ UNCHANGED qvars

ReadFramesReturn_AlwaysFlush ==
  /\ rf = "loop"
  /\ idx > Len(nalus)
  /\ ret' = EmitFrame(ret, buffer)
  /\ buffer' = <<>>
  /\ rf' = "returned"
  /\ UNCHANGED <<nalus, idx, h264_counter>>
  /\ UNCHANGED qvars

\* After the loop: a non-empty buffer becomes the last frame; ret is
\* returned.
ReadFramesReturn ==
  /\ rf = "loop"
  /\ idx > Len(nalus)
  /\ ret' = IF buffer # <<>> THEN EmitFrame(ret, buffer) ELSE ret
  /\ buffer' = <<>>
  /\ rf' = "returned"
  /\ UNCHANGED <<nalus, idx, h264_counter>>
  /\ UNCHANGED qvars

DemuxNext ==
  \/ ReadFramesNalu
  \/ ReadFramesReturn

DemuxStart == QueueIdle /\ DemuxInit

DemuxSpec == DemuxStart /\ [][DemuxNext]_vars

\* ------------------------------------------------------------- properties
\* The item a push call in progress still holds, as a sequence.
Held == IF producer \in {"attempt", "sleep"} THEN <<frame>> ELSE <<>>

\* The number of push calls that have returned.
Completed == Len(pushed) - Len(Held)

\* C1: with capacity >= 1, under every interleaving of the producer's push
\* and the consumer's next, the k-th item returned by next is the k-th item
\* passed to push, Ok and Err items alike.
C1_Fifo ==
  capacity >= 1 =>
    /\ Len(popped) <= Len(pushed)
    /\ \A k \in 1..Len(popped) : popped[k] = pushed[k]

\* C1 witness: a frame and then an error came out in push order while the
\* producer is inside a later push.
C1_Witness ==
  /\ capacity >= 1
  /\ Len(popped) >= 2
  /\ popped[1].tag = "Ok"
  /\ popped[2].tag = "Err"
  /\ producer = "attempt"

\* C2: the ring buffer never holds fewer than 0 or more than `capacity`
\* items.
C2_WithinCapacity == Len(ring) \in 0..capacity

\* C2 witness: a push found the largest ring full and waits.
C2_Witness ==
  /\ capacity = MaxCapacity
  /\ Len(ring) = capacity
  /\ producer = "sleep"

\* C3: the items returned by next, then the items in the ring, then the
\* item a push in progress holds, are exactly the items passed to push, in
\* order: nothing dropped, duplicated or reordered.
C3_NoLossNoDup == popped \o ring \o Held = pushed

\* C3 witness: items are in all three places at once.
C3_Witness ==
  /\ popped # <<>>
  /\ ring # <<>>
  /\ producer = "sleep"

\* C4: with capacity >= 1, every push call returns with its item enqueued,
\* as long as the consumer goes on calling next (it is not dropped).
C4_PushReturns ==
  \A n \in 1..MaxPush :
    (capacity >= 1 /\ producer \in {"attempt", "sleep"} /\ Len(pushed) = n)
      ~> \/ /\ producer = "idle"
            /\ Len(pushed) = n
            /\ Len(popped \o ring) = n
            /\ (popped \o ring)[n] = pushed[n]
         \/ consumer = "dropped"

\* C4 witness: two more pushes than the ring has slots have returned, the
\* consumer still holding the queue.
C4_Witness ==
  /\ capacity = MaxCapacity
  /\ producer = "idle"
  /\ Len(pushed) = capacity + 2
  /\ consumer # "dropped"

\* C5: from an empty queue of capacity C, the (C+1)-th push has returned
\* only if next has removed an item, and then the first C+1 items are in
\* popped-then-ring, unchanged and in order.
C5_NoLossUnderPressure ==
  Completed >= capacity + 1 =>
    /\ Len(popped) >= 1
    /\ Len(popped \o ring) >= capacity + 1
    /\ SubSeq(popped \o ring, 1, capacity + 1) = SubSeq(pushed, 1, capacity + 1)

\* C5 witness: the (C+1)-th push has just returned after exactly one pop.
C5_Witness ==
  /\ capacity >= 1
  /\ Completed = capacity + 1
  /\ producer = "idle"
  /\ Len(popped) = 1
  /\ Len(ring) = capacity

\* C6: a next call that returns gives Some of exactly the oldest item and
\* removes exactly that item; next never gives None, producer dropped or
\* not.
C6_NextYieldsOne ==
  /\ [](returned # None)
  /\ [][(consumer \in {"attempt", "sleep"} /\ consumer' = "idle") =>
          /\ ring # <<>>
          /\ returned' = Some(Head(ring))
          /\ ring' = Tail(ring)
          /\ popped' = Append(popped, Head(ring))]_vars

\* C6 witness: with the producer dropped, next has drained the queue and
\* its last call returned Some.
C6_Witness ==
  /\ producer = "dropped"
  /\ consumer = "idle"
  /\ returned.tag = "Some"
  /\ ring = <<>>
  /\ Len(popped) = Len(pushed)
  /\ Len(popped) >= 2

\* The consumer is inside next, the ring is empty, the producer is dropped.
NextStuck ==
  /\ consumer \in {"attempt", "sleep"}
  /\ ring = <<>>
  /\ producer = "dropped"

\* C7: once the consumer is inside next with the ring empty and the
\* producer dropped, it stays there: every step leaves it in the retry loop
\* and nothing is returned.
C7_NextNeverReturns ==
  [][NextStuck => (NextStuck' /\ returned' = returned /\ popped' = popped)]_vars

\* C7 witness: the consumer sleeps in next after the producer was dropped
\* and everything pushed was consumed.
C7_Witness ==
  /\ NextStuck
  /\ consumer = "sleep"
  /\ Len(popped) >= 1

\* A push is in progress on a full ring and the consumer is outside next.
PushBlocked ==
  /\ Len(ring) = capacity
  /\ producer \in {"attempt", "sleep"}
  /\ consumer \in {"idle", "dropped"}

\* C8: while the ring is full and the consumer does not call next, a push
\* in progress stays in its loop holding its item, and the ring does not
\* change.
C8_PushNeverReturns ==
  [][(PushBlocked /\ consumer' \in {"idle", "dropped"}) =>
       (PushBlocked' /\ ring' = ring /\ frame' = frame /\ pushed' = pushed)]_vars

\* C8 witness: the consumer is gone and the producer sleeps on a full ring.
C8_Witness ==
  /\ capacity >= 1
  /\ PushBlocked
  /\ producer = "sleep"
  /\ consumer = "dropped"

\* C9: the capacity of every queue new returns is a positive integer, and
\* it stays the capacity the queue was made with.
C9_CapacityPositiveFixed ==
  /\ capacity \in Nat \ {0}
  /\ capacity = requested

\* The NAL units at which the detector signals a new access unit.
Boundaries == {j \in 1..Len(nalus) : nalus[j].au = "new"}

\* The i-th returned element is an Ok frame with pts = dts = i - 1.
SequentialTimestamps ==
  \A i \in 1..Len(ret) :
    /\ ret[i].tag = "Ok"
    /\ ret[i].frame.pts = i - 1
    /\ ret[i].frame.dts = i - 1

\* C10 as stated: K boundary-signalling NAL units give exactly K frames,
\* the i-th with pts = dts = i.
C10_KFrames ==
  rf = "returned" =>
    /\ Len(ret) = Cardinality(Boundaries)
    /\ SequentialTimestamps

\* 1 when the input starts with NAL units that precede the first boundary.
LeadingFrame == IF nalus # <<>> /\ nalus[1].au # "new" THEN 1 ELSE 0

\* C10 amended: K boundary-signalling NAL units give K frames when the
\* first NAL unit is one of them (or the input is empty) and K + 1 frames
\* otherwise; the i-th frame has pts = dts = i.
C10_KFramesAfterLeading ==
  rf = "returned" =>
    /\ Len(ret) = Cardinality(Boundaries) + LeadingFrame
    /\ SequentialTimestamps

\* C10 witness: two boundaries after a leading NAL unit gave three frames.
C10_Witness ==
  /\ rf = "returned"
  /\ Cardinality(Boundaries) = 2
  /\ LeadingFrame = 1
  /\ Len(ret) = 3

\* A NAL unit as read_frames stores it: the start code, then its bytes.
Prefixed(nalu) == StartCode \o nalu.bytes

RECURSIVE ConcatNalus(_, _, _)
\* The NAL units s[a..b], each prefixed, concatenated in input order.
ConcatNalus(s, a, b) ==
  IF a > b THEN <<>> ELSE Prefixed(s[a]) \o ConcatNalus(s, a + 1, b)

\* The places where the detector signals a new access unit while the
\* accumulation buffer is non-empty: every signalling NAL unit but a first.
CutPoints == {j \in 2..Len(nalus) : nalus[j].au = "new"}

\* The first NAL unit of every segment the cuts leave.
SegmentStarts == IF nalus = <<>> THEN {} ELSE {1} \cup CutPoints

\* The first and the last NAL unit of the i-th segment.
SegmentStart(i) ==
  CHOOSE s \in SegmentStarts : Cardinality({t \in SegmentStarts : t < s}) = i - 1

SegmentEnd(i) ==
  IF i = Cardinality(SegmentStarts) THEN Len(nalus) ELSE SegmentStart(i + 1) - 1

\* One frame per segment, numbered from 0.
SegmentFrames ==
  [i \in 1..Cardinality(SegmentStarts) |->
     Ok(Frame(ConcatNalus(nalus, SegmentStart(i), SegmentEnd(i)), i - 1, i - 1))]

\* C11: inside the loop the accumulation buffer is empty only before the
\* first NAL unit, and the frames returned are exactly the segments cut
\* before each NAL unit that signals a new access unit on a non-empty
\* buffer, each the prefixed NAL units of its segment in input order.
C11_CutsAtBoundaries ==
  /\ rf = "loop" => (buffer = <<>> <=> idx = 1)
  /\ rf = "returned" => ret = SegmentFrames

\* C11 witness: NAL units A, B, C, D with a boundary only before C give
\* Frame0 = A,B with pts 0 and Frame1 = C,D with pts 1.
C11_Witness ==
  /\ rf = "returned"
  /\ Len(nalus) = 4
  /\ [j \in 1..4 |-> nalus[j].au] = <<"same", "same", "new", "same">>
  /\ ret = << Ok(Frame(Prefixed(nalus[1]) \o Prefixed(nalus[2]), 0, 0)),
              Ok(Frame(Prefixed(nalus[3]) \o Prefixed(nalus[4]), 1, 1)) >>

\* C12: a non-empty input in which no NAL unit after the first signals a
\* new access unit gives exactly one frame, pts = dts = 0, holding every
\* NAL unit in order, each prefixed with the start code.
C12_SingleAccessUnit ==
  (/\ rf = "returned"
   /\ nalus # <<>>
   /\ \A j \in 2..Len(nalus) : nalus[j].au # "new")
    => ret = << Ok(Frame(ConcatNalus(nalus, 1, Len(nalus)), 0, 0)) >>

\* C12 witness: three NAL units, only the first signalling, one frame.
C12_Witness ==
  /\ rf = "returned"
  /\ Len(nalus) = 3
  /\ nalus[1].au = "new"
  /\ nalus[2].au = "same"
  /\ nalus[3].au = "same"
  /\ Len(ret) = 1

\* C13: with zero NAL units read_frames does not panic and returns the
\* empty sequence.
C13_EmptyInput ==
  nalus = <<>> =>
    /\ rf # "panicked"
    /\ rf = "returned" => ret = <<>>

\* C13 witness: read_frames has returned on the empty input.
C13_Witness ==
  /\ nalus = <<>>
  /\ rf = "returned"

\* The input holds a NAL unit the detector cannot classify.
HasBadNalu == \E j \in 1..Len(nalus) : nalus[j].au = "bad"

\* C14: with an unclassifiable NAL unit in the input read_frames never
\* returns, so no frame reaches the caller, and the loop turn that meets
\* the NAL unit aborts the call, whatever was accumulated before.
C14_BadNaluAborts ==
  /\ [](HasBadNalu => rf # "returned")
  /\ [][(rf = "loop" /\ idx <= Len(nalus) /\ nalus[idx].au = "bad")
          => rf' = "panicked"]_vars

\* C14 witness: the call aborted at the third NAL unit with a finished
\* frame already in ret.
C14_Witness ==
  /\ rf = "panicked"
  /\ idx = 3
  /\ Len(ret) = 1
  /\ buffer # <<>>

\* A push call is in progress.
InPush == producer \in {"attempt", "sleep"}

\* C15: a push attempt on a full ring leaves the ring as it was and keeps
\* the item; the item held through every retry is the one push was called
\* with, and the attempt that succeeds appends exactly that item, once.
C15_MoveOnlyRetry ==
  /\ [](InPush => frame = pushed[Len(pushed)])
  /\ [](Len(popped) + Len(ring) = Completed)
  /\ [][(producer = "attempt" /\ producer' = "sleep")
          => (Len(ring) = capacity /\ ring' = ring /\ frame' = frame)]_vars
  /\ [][(producer = "sleep" /\ producer' = "attempt") => frame' = frame]_vars
  /\ [][(producer = "attempt" /\ producer' = "idle")
          => ring' = Append(ring, pushed[Len(pushed)])]_vars

\* C15 witness: an in-band error was refused by a full ring and is still
\* held by the sleeping push.
C15_Witness ==
  /\ capacity >= 1
  /\ producer = "sleep"
  /\ Len(ring) = capacity
  /\ frame.tag = "Err"
  /\ frame = pushed[Len(pushed)]

\* C16: a push attempt that finds a free slot returns at once with its
\* item appended, so a push called on a ring that is not full never
\* sleeps; and while nothing has been popped and at most `capacity` items
\* were pushed, no push waits and the ring holds the pushed items in order.
C16_PushWithoutWaiting ==
  /\ [][(producer = "attempt" /\ Len(ring) < capacity)
          => \/ (producer' = "attempt" /\ Len(ring') < capacity)
             \/ (producer' = "idle" /\ ring' = Append(ring, frame))]_vars
  /\ []((popped = <<>> /\ Len(pushed) <= capacity)
          => /\ producer # "sleep"
             /\ ring \o Held = pushed)

\* C16 witness: one thread filled the largest ring, no next call made.
C16_Witness ==
  /\ capacity = MaxCapacity
  /\ consumer = "idle"
  /\ returned = NotReturned
  /\ producer = "idle"
  /\ Len(pushed) = capacity
  /\ ring = pushed

\* C17: dropping the producer loses nothing: what was pushed is what was
\* popped plus what is in the ring; a next attempt on a non-empty ring
\* still returns the oldest item, only an attempt on the empty ring
\* sleeps, and a consumer that keeps calling next gets every item.
C17_DropKeepsItems ==
  /\ [](producer = "dropped" => popped \o ring = pushed)
  /\ [][(producer = "dropped" /\ consumer = "attempt" /\ ring # <<>>)
          => /\ consumer' = "idle"
             /\ returned' = Some(Head(ring))
             /\ popped' = Append(popped, Head(ring))]_vars
  /\ [][(producer = "dropped" /\ consumer = "attempt" /\ consumer' = "sleep")
          => ring = <<>>]_vars
  /\ (producer = "dropped") ~> (popped = pushed \/ consumer = "dropped")

\* C17 witness: after the drop the consumer has taken an item and is about
\* to take one more.
C17_Witness ==
  /\ producer = "dropped"
  /\ consumer = "attempt"
  /\ Len(popped) >= 1
  /\ Len(ring) >= 1

\* Both threads are inside their calls.
BothInside == InPush /\ consumer \in {"attempt", "sleep"}

RECURSIVE FlattenData(_)
\* The data of the frames of r, concatenated in output order.
FlattenData(r) ==
  IF r = <<>> THEN <<>> ELSE Head(r).frame.data \o FlattenData(Tail(r))

\* C19: the data of the returned frames, concatenated, is the input's NAL
\* units in input order, each prefixed with the start code.
C19_ConcatenationPreserved ==
  rf = "returned" => FlattenData(ret) = ConcatNalus(nalus, 1, Len(nalus))

\* C19 witness: four NAL units came back spread over three frames.
C19_Witness ==
  /\ rf = "returned"
  /\ Len(nalus) = 4
  /\ Len(ret) = 3

\* C20: every element of ret is an Ok frame whose data starts with a start
\* code, so it is never empty.
C20_FramesNonEmpty ==
  \A i \in 1..Len(ret) :
    /\ ret[i].tag = "Ok"
    /\ Len(ret[i].frame.data) > Len(StartCode)
    /\ SubSeq(ret[i].frame.data, 1, Len(StartCode)) = StartCode

\* C20 witness: the first NAL unit signalled a boundary and the first
\* frame returned holds it.
C20_Witness ==
  /\ rf = "returned"
  /\ Len(nalus) >= 2
  /\ nalus[1].au = "new"
  /\ nalus[2].au = "new"
  /\ ret[1].frame.data = Prefixed(nalus[1])

====
